---- MODULE Spec2Model ----
(***************************************************************************)
(* Model of the peppa chat-command gateway:                                *)
(*   bot/src/slack_bot/blocks.py      - the Action Registry (action_data)  *)
(*   bot/src/slack_bot/main.py        - the Slack bot Lambda (dialog, job   *)
(*                                      trigger)                           *)
(*   bot/src/slack_notifier/main.py   - the notifier Lambda                *)
(*                                                                         *)
(* Every handling of an inbound event is one action.  The outbound calls   *)
(* a handling makes (ack, views_open, chat_postMessage, start_build,       *)
(* get_secret_value) are recorded, in order, in run.calls; the outcome of  *)
(* each outbound call (success, or the text of the exception it raises)    *)
(* is an input of the action.                                              *)
(***************************************************************************)
EXTENDS Integers, Sequences, FiniteSets, TLC

VARIABLES
    action_data,        \* blocks.action_data: action name -> modal template
    _slack_app,         \* slack_bot/main.py global _slack_app
    bot_fetches,        \* get_secret_value calls made by this bot process
    bot_constructs,     \* App objects constructed by this bot process
    _slack_client,      \* slack_notifier/main.py global _slack_client
    notifier_fetches,   \* get_secret_value calls made by this notifier process
    notifier_constructs,\* WebClient objects constructed by this notifier process
    dialog,             \* the modal the chat client currently shows to the user
    run                 \* the most recent handling: its event, calls, log, response

vars == <<action_data, _slack_app, bot_fetches, bot_constructs,
          _slack_client, notifier_fetches, notifier_constructs, dialog, run>>

bot_vars == <<action_data, _slack_app, bot_fetches, bot_constructs, dialog>>
notifier_vars == <<_slack_client, notifier_fetches, notifier_constructs>>

---------------------------------------------------------------------------
(* Bounds *)

\* secret fetches one process lifetime may make before the model stops
\* starting further initialisations
MaxFetch == 2

\* entries of the actions directory when the load itself is examined
MaxEntries == 3

---------------------------------------------------------------------------
(* Values *)

None == "None"

\* texts of the exceptions an outbound call may raise
ErrTexts == {"AccessDenied", "Throttled"}

\* outcome of one outbound call: "ok", or the text of the exception raised
Outcomes == {"ok"} \cup ErrTexts

NoExc == [raised |-> FALSE, msg |-> ""]
Raised(msg) == [raised |-> TRUE, msg |-> msg]

\* str(e): the text of an exception
str(e) == e.msg

\* dict.get(key): the default is not passed, a missing key gives None
get_NoDefault(d, key, default) == IF key \in DOMAIN d THEN d[key] ELSE None

\* dict.get(key, default)
get(d, key, default) == IF key \in DOMAIN d THEN d[key] ELSE default

\* truthiness that only tests for None: "" passes
truthy_NoneOnly(v) == v # None

\* Python truthiness of an optional string: None and "" are falsy
truthy(v) == v # None /\ v # ""

---------------------------------------------------------------------------
(* blocks.py: the Action Registry *)

\* names of the entries the actions directory of the deployed bot may hold
DirNames == {"backup", "deploy", "_shared"}

\* names of the entries an actions directory may hold when the load itself
\* is examined
ScanNames == DirNames \cup {"build", ".git"}

\* characters of each entry name
chars == [n \in ScanNames |->
            CASE n = "backup"  -> <<"b", "a", "c", "k", "u", "p">>
              [] n = "deploy"  -> <<"d", "e", "p", "l", "o", "y">>
              [] n = "_shared" -> <<"_", "s", "h", "a", "r", "e", "d">>
              [] n = "build"   -> <<"b", "u", "i", "l", "d">>
              [] n = ".git"    -> <<".", "g", "i", "t">>]

\* str.startswith(tuple of one-character prefixes)
startswith(name, prefixes) ==
    Len(chars[name]) > 0 /\ chars[name][1] \in prefixes

\* what an entry of the actions directory is
\*   file      - a plain file
\*   no_modal  - a directory without modal.json
\*   bad_json  - a directory whose modal.json does not parse
\*   array     - a directory whose modal.json parses to a JSON array
\*   valid     - a directory whose modal.json parses to a JSON object
EntryKinds == {"file", "no_modal", "bad_json", "array", "valid"}

\* the orders in which a set of names can be listed
Perms(S) ==
    {p \in [1..Cardinality(S) -> S] :
        \A i, j \in 1..Cardinality(S) : i # j => p[i] # p[j]}

\* the directories of at most max entries with names among names
Dirs(names, max) == {Q \in SUBSET names : Cardinality(Q) <= max}

\* what actions_dir.iterdir() yields for the entries P of kinds f when the
\* file system lists them in the order p
Scan(P, f, p) ==
    [k \in 1..Cardinality(P) |-> [name |-> p[k], kind |-> f[p[k]]]]

\* what actions_dir.iterdir() may yield: at most max entries with distinct
\* names among names, of any kind, in any order
ScansOf(names, max) ==
    UNION {{Scan(P, f, p) : f \in [P -> EntryKinds], p \in Perms(P)} :
           P \in Dirs(names, max)}

Listings == ScansOf(DirNames, Cardinality(DirNames))

\* a JSON array, as json.load returns it (a list, not a dict)
JsonArray == [__array__ |-> "[]"]

isinstance_dict(v) == "__array__" \notin DOMAIN v

\* json.load(modal.json) of an action directory whose modal.json parses
modal_data(name, kind) ==
    IF kind = "array" THEN JsonArray
    ELSE IF name = "deploy"
    THEN [type |-> "modal", title |-> name, submit |-> "Run",
          callback_id |-> "deploy_form"]
    ELSE [type |-> "modal", title |-> name, submit |-> "Run"]

is_dir(action_path) == action_path.kind # "file"

\* the for loop of load_actions over the entries not yet scanned
RECURSIVE load_scan(_, _)
load_scan(entries, actions) ==
    IF entries = <<>> THEN actions
    ELSE LET action_path == Head(entries) IN
         IF ~is_dir(action_path) \/ startswith(action_path.name, {".", "_"})
         THEN load_scan(Tail(entries), actions)
         ELSE IF action_path.kind = "no_modal"
         THEN load_scan(Tail(entries), actions)
         ELSE IF action_path.kind = "bad_json"
         THEN load_scan(Tail(entries), actions)
         ELSE load_scan(Tail(entries),
                        (action_path.name :>
                            modal_data(action_path.name, action_path.kind))
                           @@ actions)

\* the loop of load_actions, giving up at the first modal.json that does
\* not parse
RECURSIVE load_scan_Abort(_, _)
load_scan_Abort(entries, actions) ==
    IF entries = <<>> THEN actions
    ELSE LET action_path == Head(entries) IN
         IF ~is_dir(action_path) \/ startswith(action_path.name, {".", "_"})
         THEN load_scan_Abort(Tail(entries), actions)
         ELSE IF action_path.kind = "no_modal"
         THEN load_scan_Abort(Tail(entries), actions)
         ELSE IF action_path.kind = "bad_json"
         THEN actions
         ELSE load_scan_Abort(Tail(entries),
                              (action_path.name :>
                                  modal_data(action_path.name,
                                             action_path.kind))
                                 @@ actions)

load_actions_Abort(listing) == load_scan_Abort(listing, <<>>)

\* load_actions: listing is what iterdir() yields, in scan order
load_actions(listing) == load_scan(listing, <<>>)

\* the registries the deployed bot can start with
Registries == {load_actions(listing) : listing \in Listings}

---------------------------------------------------------------------------
(* slack_bot/main.py *)

\* os.environ.get('BOT_NAME', 'senora')
BOT_NAME == "senora"

Users == {[id |-> "U1", name |-> "alice"], [id |-> "U2", name |-> "bob"]}

\* body["user"] of an interactive payload; the last one lacks "name"
BodyUsers == Users \cup {[id |-> "U1"]}

Post(site, channel, text, outcome) ==
    [api |-> "chat_postMessage", site |-> site, channel |-> channel,
     text |-> text, outcome |-> outcome]

\* json.dumps(request_body)
json_dumps_body(request_body) ==
    "{trigger_id: " \o request_body.trigger_id \o ", user: {id: "
        \o request_body.user.id
        \o (IF "name" \in DOMAIN request_body.user
            THEN ", name: " \o request_body.user.name ELSE "")
        \o "}, private_metadata: " \o request_body.view.private_metadata \o "}"

project_name_of(action_name) == BOT_NAME \o "-" \o action_name

environmentVariablesOverride(request_body) ==
    [REQUEST_BODY |-> json_dumps_body(request_body),
     TRIGGER_ID   |-> get(request_body, "trigger_id", ""),
     USER_ID      |-> request_body.user.id,
     USER_NAME    |-> request_body.user.name]

\* execute_action that calls start_build a second time when the first
\* call raised
execute_action_Retry(action_name, request_body, o) ==
    LET project_name == project_name_of(action_name) IN
    IF "name" \notin DOMAIN request_body.user
    THEN [calls |-> <<>>, exc |-> Raised("'name'"), logged |-> {}]
    ELSE LET call == [api |-> "start_build", projectName |-> project_name,
                      env |-> environmentVariablesOverride(request_body),
                      outcome |-> o]
         IN  IF o = "ok"
             THEN [calls |-> <<call>>, exc |-> NoExc, logged |-> {},
                   build_info |-> [id |-> project_name \o ":1"]]
             ELSE [calls |-> <<call, call>>, exc |-> Raised(o),
                   logged |-> {o}]

\* execute_action: o is the outcome of codebuild_client.start_build
execute_action(action_name, request_body, o) ==
    LET project_name == project_name_of(action_name) IN
    IF "name" \notin DOMAIN request_body.user
    THEN \* KeyError while the arguments are built: start_build is not called
         [calls |-> <<>>, exc |-> Raised("'name'"), logged |-> {}]
    ELSE LET call == [api |-> "start_build", projectName |-> project_name,
                      env |-> environmentVariablesOverride(request_body),
                      outcome |-> o]
         IN  IF o = "ok"
             THEN [calls |-> <<call>>, exc |-> NoExc, logged |-> {},
                   build_info |-> [id |-> project_name \o ":1"]]
             ELSE [calls |-> <<call>>, exc |-> Raised(o), logged |-> {o}]

\* ---- string order, as Python compares str (by code point) ----

\* the characters that occur in entry names, in code-point order
Alphabet == <<".", "_", "a", "b", "c", "d", "e", "g", "h", "i", "k", "l",
              "o", "p", "r", "s", "t", "u", "y">>

ord(c) == CHOOSE i \in 1..Len(Alphabet) : Alphabet[i] = c

RECURSIVE seq_lt(_, _)
seq_lt(s, t) ==
    IF t = <<>> THEN FALSE
    ELSE IF s = <<>> THEN TRUE
    ELSE IF ord(Head(s)) # ord(Head(t)) THEN ord(Head(s)) < ord(Head(t))
    ELSE seq_lt(Tail(s), Tail(t))

str_lt(a, b) == seq_lt(chars[a], chars[b])

\* sorted(names, reverse=True)
RECURSIVE sorted_Reverse(_)
sorted_Reverse(S) ==
    IF S = {} THEN <<>>
    ELSE LET m == CHOOSE x \in S : \A y \in S \ {x} : str_lt(y, x)
         IN  <<m>> \o sorted_Reverse(S \ {m})

\* sorted(names)
RECURSIVE sorted(_)
sorted(S) ==
    IF S = {} THEN <<>>
    ELSE LET m == CHOOSE x \in S : \A y \in S \ {x} : str_lt(x, y)
         IN  <<m>> \o sorted(S \ {m})

\* ---- lazily initialised app ----

\* outcomes of one initialisation: the secret fetch, whether the secret
\* holds the required keys, and the construction of the App
\* (the outcome of a step that is not reached is left at "ok"/TRUE)
InitOutcomes ==
    {i \in [fetch : Outcomes, keys : BOOLEAN, construct : Outcomes] :
        /\ i.fetch # "ok" => i.keys /\ i.construct = "ok"
        /\ ~i.keys => i.construct = "ok"}

InitOk == [fetch |-> "ok", keys |-> TRUE, construct |-> "ok"]

SecretCall(o) == [api |-> "get_secret_value", outcome |-> o]

\* get_slack_credentials: i.fetch is the outcome of get_secret_value
get_slack_credentials(i) ==
    IF i.fetch # "ok"
    THEN [calls |-> <<SecretCall(i.fetch)>>, exc |-> Raised(i.fetch),
          logged |-> {i.fetch}]
    ELSE IF ~i.keys
    THEN [calls |-> <<SecretCall("ok")>>,
          exc |-> Raised("Secret missing keys"),
          logged |-> {"Secret missing keys"}]
    ELSE [calls |-> <<SecretCall("ok")>>, exc |-> NoExc, logged |-> {}]

\* get_slack_app without the "is None" test: every call initialises
get_slack_app_Uncached(app, i) ==
    LET credentials == get_slack_credentials(i) IN
    IF credentials.exc.raised
    THEN [app |-> app, calls |-> credentials.calls,
          exc |-> credentials.exc, logged |-> credentials.logged,
          constructed |-> 0]
    ELSE IF i.construct # "ok"
    THEN [app |-> app, calls |-> credentials.calls,
          exc |-> Raised(i.construct), logged |-> {}, constructed |-> 0]
    ELSE [app |-> "App", calls |-> credentials.calls, exc |-> NoExc,
          logged |-> {}, constructed |-> 1]

\* get_slack_app: app is the current value of _slack_app
get_slack_app(app, i) ==
    IF app = None
    THEN LET credentials == get_slack_credentials(i) IN
         IF credentials.exc.raised
         THEN [app |-> None, calls |-> credentials.calls,
               exc |-> credentials.exc, logged |-> credentials.logged,
               constructed |-> 0]
         ELSE IF i.construct # "ok"
         THEN [app |-> None, calls |-> credentials.calls,
               exc |-> Raised(i.construct), logged |-> {},
               constructed |-> 0]
         ELSE [app |-> "App", calls |-> credentials.calls, exc |-> NoExc,
               logged |-> {}, constructed |-> 1]
    ELSE [app |-> app, calls |-> <<>>, exc |-> NoExc, logged |-> {},
          constructed |-> 0]

\* number of get_secret_value calls in a sequence of calls
RECURSIVE count(_, _)
count(calls, api) ==
    IF calls = <<>> THEN 0
    ELSE (IF Head(calls).api = api THEN 1 ELSE 0) + count(Tail(calls), api)

\* ---- views ----

NoView == [callback_id |-> "none"]

\* the modal_view open_modal builds
modal_view ==
    [type |-> "modal", callback_id |-> "initial_modal",
     block_id |-> "action_select_block", action_id |-> "action_select",
     options |-> [k \in 1..Cardinality(DOMAIN action_data) |->
                    [text  |-> sorted(DOMAIN action_data)[k],
                     value |-> sorted(DOMAIN action_data)[k]]]]

\* open_modal: o is the outcome of client.views_open
open_modal(trigger_id, o) ==
    [calls |-> <<[api |-> "views_open", trigger_id |-> trigger_id,
                  view |-> modal_view, outcome |-> o]>>,
     exc |-> IF o = "ok" THEN NoExc ELSE Raised(o)]

\* a dict with callback_id and private_metadata assigned
with_callback(d, action_name) ==
    [k \in DOMAIN d \cup {"callback_id", "private_metadata"} |->
        IF k = "callback_id" THEN "updated_modal"
        ELSE IF k = "private_metadata" THEN action_name
        ELSE d[k]]

ListIndexError == "list indices must be integers or slices, not str"

\* create_action_modal without the .copy(): the two keys are assigned on
\* the template stored in the registry
create_action_modal_NoCopy(action_name) ==
    LET action_modal == action_data[action_name] IN
    IF ~isinstance_dict(action_modal)
    THEN [exc |-> Raised(ListIndexError), action_data |-> action_data]
    ELSE [view |-> with_callback(action_modal, action_name), exc |-> NoExc,
          action_data |-> [action_data EXCEPT ![action_name] =
                              with_callback(action_modal, action_name)]]

\* create_action_modal: a copy of the template with two keys set; view is
\* the modal returned, action_data the registry as the call leaves it.
\* Assigning a key on the copy of a JSON array raises TypeError.
create_action_modal(action_name) ==
    LET action_modal == action_data[action_name] IN
    IF ~isinstance_dict(action_modal)
    THEN [exc |-> Raised(ListIndexError), action_data |-> action_data]
    ELSE [view |-> with_callback(action_modal, action_name), exc |-> NoExc,
          action_data |-> action_data]

\* ---- handlers ----

Ack(response) == [api |-> "ack", response |-> response]

\* the empty acknowledgment ack()
EmptyAck == [response_action |-> "none"]

SorryText == "Sorry, I encountered an error. Please try again later."

\* the error message sent from an except block that lets the failure of
\* the send go up to the framework
best_effort_post_Cascade(site, channel, text, outcome) ==
    [calls |-> <<Post(site, channel, text, outcome)>>,
     exc   |-> IF outcome = "ok" THEN NoExc ELSE Raised(outcome)]

\* the error message sent from an except block, inside its own
\* try ... except Exception: pass
best_effort_post(site, channel, text, outcome) ==
    [calls |-> <<Post(site, channel, text, outcome)>>, exc |-> NoExc]

\* handle_slash_command that acknowledges after open_modal returned
handle_slash_command_AckLate(body, o) ==
    LET opened == open_modal(body.trigger_id, o.views_open) IN
    IF opened.exc.raised
    THEN [calls  |-> opened.calls \o <<Ack(EmptyAck)>>
                       \o <<Post("sorry", body.user_id, SorryText, o.sorry)>>,
          logged |-> {str(opened.exc)},
          exc    |-> NoExc,
          action_data |-> action_data]
    ELSE [calls  |-> opened.calls \o <<Ack(EmptyAck)>>,
          logged |-> {},
          exc    |-> NoExc,
          action_data |-> action_data]

\* handle_slash_command: o.views_open and o.sorry are the outcomes of
\* views_open and of the error message
handle_slash_command(body, o) ==
    LET opened == open_modal(body.trigger_id, o.views_open)
        sent   == best_effort_post("sorry", body.user_id, SorryText, o.sorry)
    IN
    IF opened.exc.raised
    THEN [calls  |-> <<Ack(EmptyAck)>> \o opened.calls \o sent.calls,
          logged |-> {str(opened.exc)},
          exc    |-> sent.exc,
          action_data |-> action_data]
    ELSE [calls  |-> <<Ack(EmptyAck)>> \o opened.calls,
          logged |-> {},
          exc    |-> NoExc,
          action_data |-> action_data]

\* selected_option when nothing was selected (JSON null)
NoneOption == [is_none |-> TRUE]

\* handle_initial_modal_submission without the return after the "Invalid
\* action selected" ack: it goes on to create_action_modal, whose KeyError
\* is caught and acknowledged a second time
handle_initial_modal_submission_NoReturn(body, view) ==
    IF view.selected_option = NoneOption
    THEN [calls  |-> <<Ack([response_action |-> "errors",
                            errors |-> [action_select_block |->
                               "An error occurred. Please try again."]])>>,
          logged |-> {"'NoneType' object is not subscriptable"},
          exc    |-> NoExc,
          action_data |-> action_data]
    ELSE LET selected_action == view.selected_option.value IN
         IF selected_action \notin DOMAIN action_data
         THEN [calls  |-> <<Ack([response_action |-> "errors",
                                 errors |-> [action_select_block |->
                                    "Invalid action selected"]]),
                            Ack([response_action |-> "errors",
                                 errors |-> [action_select_block |->
                                    "An error occurred. Please try again."]])>>,
               logged |-> {"Invalid action selected: " \o selected_action,
                           "'" \o selected_action \o "'"},
               exc    |-> NoExc,
          action_data |-> action_data]
         ELSE LET built == create_action_modal(selected_action) IN
              IF built.exc.raised
              THEN [calls  |-> <<Ack([response_action |-> "errors",
                                      errors |-> [action_select_block |->
                                         "An error occurred. Please try again."]])>>,
                    logged |-> {str(built.exc)},
                    exc    |-> NoExc,
                    action_data |-> built.action_data]
              ELSE [calls  |-> <<Ack([response_action |-> "update",
                                      view |-> built.view])>>,
                    logged |-> {},
                    exc    |-> NoExc,
                    action_data |-> built.action_data]

\* handle_initial_modal_submission that acknowledges on entry with ack(),
\* as the other two handlers do, and again with its response
handle_initial_modal_submission_AckFirst(body, view) ==
    IF view.selected_option = NoneOption
    THEN \* None["value"] raises TypeError
         [calls  |-> <<Ack(EmptyAck), Ack([response_action |-> "errors",
                            errors |-> [action_select_block |->
                               "An error occurred. Please try again."]])>>,
          logged |-> {"'NoneType' object is not subscriptable"},
          exc    |-> NoExc,
          action_data |-> action_data]
    ELSE LET selected_action == view.selected_option.value IN
         IF selected_action \notin DOMAIN action_data
         THEN [calls  |-> <<Ack(EmptyAck), Ack([response_action |-> "errors",
                                 errors |-> [action_select_block |->
                                    "Invalid action selected"]])>>,
               logged |-> {"Invalid action selected: " \o selected_action},
               exc    |-> NoExc,
          action_data |-> action_data]
         ELSE LET built == create_action_modal(selected_action) IN
              IF built.exc.raised
              THEN [calls  |-> <<Ack(EmptyAck), Ack([response_action |-> "errors",
                                      errors |-> [action_select_block |->
                                         "An error occurred. Please try again."]])>>,
                    logged |-> {str(built.exc)},
                    exc    |-> NoExc,
                    action_data |-> built.action_data]
              ELSE [calls  |-> <<Ack(EmptyAck), Ack([response_action |-> "update",
                                      view |-> built.view])>>,
                    logged |-> {},
                    exc    |-> NoExc,
                    action_data |-> built.action_data]

\* handle_initial_modal_submission: view.selected_option is NoneOption or
\* the option the user selected
handle_initial_modal_submission(body, view) ==
    IF view.selected_option = NoneOption
    THEN \* None["value"] raises TypeError
         [calls  |-> <<Ack([response_action |-> "errors",
                            errors |-> [action_select_block |->
                               "An error occurred. Please try again."]])>>,
          logged |-> {"'NoneType' object is not subscriptable"},
          exc    |-> NoExc,
          action_data |-> action_data]
    ELSE LET selected_action == view.selected_option.value IN
         IF selected_action \notin DOMAIN action_data
         THEN [calls  |-> <<Ack([response_action |-> "errors",
                                 errors |-> [action_select_block |->
                                    "Invalid action selected"]])>>,
               logged |-> {"Invalid action selected: " \o selected_action},
               exc    |-> NoExc,
          action_data |-> action_data]
         ELSE LET built == create_action_modal(selected_action) IN
              IF built.exc.raised
              THEN [calls  |-> <<Ack([response_action |-> "errors",
                                      errors |-> [action_select_block |->
                                         "An error occurred. Please try again."]])>>,
                    logged |-> {str(built.exc)},
                    exc    |-> NoExc,
                    action_data |-> built.action_data]
              ELSE [calls  |-> <<Ack([response_action |-> "update",
                                      view |-> built.view])>>,
                    logged |-> {},
                    exc    |-> NoExc,
                    action_data |-> built.action_data]

ReceivedText(action_name) ==
    "Your request for *" \o action_name
        \o "* has been received and is being processed..."

RunningText(action_name, build_info) ==
    "*" \o action_name \o "* is now running! Build ID: `" \o build_info.id
        \o "` You'll be notified when it completes."

FailedText(e) ==
    "Failed to execute action: " \o str(e)
        \o " Please contact support if this continues."

\* the try block of handle_updated_modal_submission
updated_modal_try(body, view, o) ==
    LET action_name == view.private_metadata
        user_id     == body.user.id
        received    == Post("received", user_id, ReceivedText(action_name),
                            o.received)
        build       == execute_action(action_name, body, o.build)
        running     == Post("running", user_id,
                            RunningText(action_name, build.build_info),
                            o.running)
    IN  IF o.received # "ok"
        THEN [calls |-> <<received>>, exc |-> Raised(o.received),
              logged |-> {}]
        ELSE IF build.exc.raised
        THEN [calls |-> <<received>> \o build.calls, exc |-> build.exc,
              logged |-> build.logged]
        ELSE IF o.running # "ok"
        THEN [calls |-> <<received>> \o build.calls \o <<running>>,
              exc |-> Raised(o.running), logged |-> {}]
        ELSE [calls |-> <<received>> \o build.calls \o <<running>>,
              exc |-> NoExc, logged |-> {}]

\* handle_updated_modal_submission whose except block only logs
handle_updated_modal_submission_Silent(body, view, o) ==
    LET tried == updated_modal_try(body, view, o) IN
    IF tried.exc.raised
    THEN [calls  |-> <<Ack(EmptyAck)>> \o tried.calls,
          logged |-> tried.logged \cup {str(tried.exc)},
          exc    |-> NoExc,
          action_data |-> action_data]
    ELSE [calls  |-> <<Ack(EmptyAck)>> \o tried.calls,
          logged |-> {},
          exc    |-> NoExc,
          action_data |-> action_data]

\* handle_updated_modal_submission that acknowledges after its work
handle_updated_modal_submission_AckLast(body, view, o) ==
    LET tried == updated_modal_try(body, view, o) IN
    IF tried.exc.raised
    THEN [calls  |-> tried.calls
                       \o <<Post("failed", body.user.id, FailedText(tried.exc),
                                 o.failed)>>
                       \o <<Ack(EmptyAck)>>,
          logged |-> tried.logged \cup {str(tried.exc)},
          exc    |-> NoExc,
          action_data |-> action_data]
    ELSE [calls  |-> tried.calls \o <<Ack(EmptyAck)>>,
          logged |-> {},
          exc    |-> NoExc,
          action_data |-> action_data]

\* handle_updated_modal_submission: o.received, o.build, o.running and
\* o.failed are the outcomes of the outbound calls, in source order
handle_updated_modal_submission(body, view, o) ==
    LET tried == updated_modal_try(body, view, o)
        sent  == best_effort_post("failed", body.user.id,
                                  FailedText(tried.exc), o.failed)
    IN
    IF tried.exc.raised
    THEN [calls  |-> <<Ack(EmptyAck)>> \o tried.calls \o sent.calls,
          logged |-> tried.logged \cup {str(tried.exc)},
          exc    |-> sent.exc,
          action_data |-> action_data]
    ELSE [calls  |-> <<Ack(EmptyAck)>> \o tried.calls,
          logged |-> {},
          exc    |-> NoExc,
          action_data |-> action_data]

\* the handler Bolt dispatches an event to: by command, or by the
\* callback_id of the submitted view
dispatch(event, o) ==
    CASE event.type = "command" ->
            handle_slash_command(event.body, o)
      [] event.type = "view_submission"
            /\ event.body.view.callback_id = "initial_modal" ->
            handle_initial_modal_submission(event.body, event.body.view)
      [] event.type = "view_submission"
            /\ event.body.view.callback_id = "updated_modal" ->
            handle_updated_modal_submission(event.body, event.body.view, o)

\* the response of the single ack(...) call among calls
RECURSIVE ack_of(_)
ack_of(calls) ==
    IF Head(calls).api = "ack" THEN Head(calls).response
    ELSE ack_of(Tail(calls))

InternalServerError == [error |-> "Internal server error"]

\* slack_bot lambda_handler: i are the outcomes of the initialisation,
\* o the outcomes of the handler's outbound calls
bot_lambda_handler(event, i, o) ==
    LET got == get_slack_app(_slack_app, i) IN
    IF got.exc.raised
    THEN [app |-> got.app, constructed |-> got.constructed,
          calls |-> got.calls,
          logged |-> got.logged \cup {str(got.exc)},
          handled |-> FALSE,
          exc |-> NoExc,
          action_data |-> action_data,
          response |-> [statusCode |-> 500, body |-> InternalServerError]]
    ELSE LET h == dispatch(event, o) IN
         [app |-> got.app, constructed |-> got.constructed,
          calls |-> got.calls \o h.calls,
          logged |-> h.logged,
          handled |-> TRUE,
          exc |-> h.exc,
          action_data |-> h.action_data,
          response |-> [statusCode |-> 200, body |-> ack_of(h.calls)]]

---------------------------------------------------------------------------
(* slack_notifier/main.py *)

Absent == "<absent>"

NotificationTypes == {Absent, "direct-message", "in-thread", "bogus"}
Messages   == {Absent, "", "hi"}
UserIds    == {Absent, "", "U1"}
Channels   == {Absent, "", "C1"}
ThreadTss  == {Absent, "", "1700000000.000100"}

field(key, v) == IF v = Absent THEN <<>> ELSE key :> v

\* the notification request with the given fields (Absent: key not present)
Notification(t, m, u, c, ts) ==
    field("notification_type", t) @@ field("message", m)
        @@ field("user_id", u) @@ field("channel", c)
        @@ field("thread_ts", ts)

\* outcomes of one client initialisation: the secret fetch and whether the
\* secret holds slack_bot_token
ClientInitOutcomes ==
    {i \in [fetch : Outcomes, token : BOOLEAN] : i.fetch # "ok" => i.token}

ClientInitOk == [fetch |-> "ok", token |-> TRUE]

\* get_slack_client: client is the current value of _slack_client
get_slack_client(client, i) ==
    IF client = None
    THEN IF i.fetch # "ok"
         THEN [client |-> None, calls |-> <<SecretCall(i.fetch)>>,
               exc |-> Raised(i.fetch), logged |-> {i.fetch},
               constructed |-> 0]
         ELSE IF ~i.token
         THEN [client |-> None, calls |-> <<SecretCall("ok")>>,
               exc |-> Raised("'slack_bot_token'"), logged |-> {},
               constructed |-> 0]
         ELSE [client |-> "WebClient", calls |-> <<SecretCall("ok")>>,
               exc |-> NoExc, logged |-> {}, constructed |-> 1]
    ELSE [client |-> client, calls |-> <<>>, exc |-> NoExc, logged |-> {},
          constructed |-> 0]

\* response.data of a successful chat_postMessage
response_data(channel) == [ok |-> TRUE, channel |-> channel]

\* client.chat_postMessage(channel, [thread_ts,] text, mrkdwn=True) of the
\* notifier; thread_ts is None for a direct message
NotifierPost(channel, thread_ts, text, outcome) ==
    [api |-> "chat_postMessage", channel |-> channel,
     thread_ts |-> thread_ts, text |-> text, mrkdwn |-> TRUE,
     outcome |-> outcome]

\* send_direct_message that tries a second time when the post fails
send_direct_message_Retry(user_id, message, i, o) ==
    LET got == get_slack_client(_slack_client, i) IN
    IF got.exc.raised
    THEN [client |-> got.client, constructed |-> got.constructed,
          calls |-> got.calls, exc |-> got.exc, logged |-> got.logged]
    ELSE [client |-> got.client, constructed |-> got.constructed,
          calls |-> IF o = "ok"
                    THEN got.calls
                            \o <<NotifierPost(user_id, None, message, o)>>
                    ELSE got.calls
                            \o <<NotifierPost(user_id, None, message, o),
                                 NotifierPost(user_id, None, message, o)>>,
          exc |-> IF o = "ok" THEN NoExc ELSE Raised(o),
          logged |-> IF o = "ok" THEN {} ELSE {o},
          data |-> response_data(user_id)]

\* send_direct_message: i, o are the outcomes of the client initialisation
\* and of chat_postMessage
send_direct_message(user_id, message, i, o) ==
    LET got == get_slack_client(_slack_client, i) IN
    IF got.exc.raised
    THEN [client |-> got.client, constructed |-> got.constructed,
          calls |-> got.calls, exc |-> got.exc, logged |-> got.logged]
    ELSE [client |-> got.client, constructed |-> got.constructed,
          calls |-> got.calls \o <<NotifierPost(user_id, None, message, o)>>,
          exc |-> IF o = "ok" THEN NoExc ELSE Raised(o),
          logged |-> IF o = "ok" THEN {} ELSE {o},
          data |-> response_data(user_id)]

\* send_thread_reply that does not pass thread_ts on
send_thread_reply_NoThread(channel, thread_ts, message, i, o) ==
    LET got == get_slack_client(_slack_client, i) IN
    IF got.exc.raised
    THEN [client |-> got.client, constructed |-> got.constructed,
          calls |-> got.calls, exc |-> got.exc, logged |-> got.logged]
    ELSE [client |-> got.client, constructed |-> got.constructed,
          calls |-> got.calls \o <<NotifierPost(channel, None, message, o)>>,
          exc |-> IF o = "ok" THEN NoExc ELSE Raised(o),
          logged |-> IF o = "ok" THEN {} ELSE {o},
          data |-> response_data(channel)]

\* send_thread_reply
send_thread_reply(channel, thread_ts, message, i, o) ==
    LET got == get_slack_client(_slack_client, i) IN
    IF got.exc.raised
    THEN [client |-> got.client, constructed |-> got.constructed,
          calls |-> got.calls, exc |-> got.exc, logged |-> got.logged]
    ELSE [client |-> got.client, constructed |-> got.constructed,
          calls |-> got.calls
                      \o <<NotifierPost(channel, thread_ts, message, o)>>,
          exc |-> IF o = "ok" THEN NoExc ELSE Raised(o),
          logged |-> IF o = "ok" THEN {} ELSE {o},
          data |-> response_data(channel)]

\* a return of the notifier handler before any delivery
BadRequest(error, logged) ==
    [client |-> _slack_client, constructed |-> 0, calls |-> <<>>,
     logged |-> {logged},
     response |-> [statusCode |-> 400, body |-> [error |-> error]]]

\* the tail of the notifier handler after send_direct_message or
\* send_thread_reply returned or raised
Delivered(sent) ==
    IF sent.exc.raised
    THEN [client |-> sent.client, constructed |-> sent.constructed,
          calls |-> sent.calls,
          logged |-> sent.logged \cup {str(sent.exc)},
          response |-> [statusCode |-> 500,
                        body |-> [error |-> str(sent.exc)]]]
    ELSE [client |-> sent.client, constructed |-> sent.constructed,
          calls |-> sent.calls, logged |-> {},
          response |-> [statusCode |-> 200,
                        body |-> [message |-> "Notification sent",
                                  response |-> sent.data]]]

\* slack_notifier lambda_handler that treats every type other than
\* in-thread as a direct message
notifier_lambda_handler_DefaultDM(event, i, o) ==
    LET notification_type == get(event, "notification_type", "direct-message")
        message           == get(event, "message", "")
    IN  IF ~truthy(message)
        THEN BadRequest("Message is required", "No message provided")
        ELSE IF notification_type = "in-thread"
        THEN LET channel   == get(event, "channel", None)
                 thread_ts == get(event, "thread_ts", None)
             IN  IF ~truthy(channel) \/ ~truthy(thread_ts)
                 THEN BadRequest(
                        "channel and thread_ts required for thread replies",
                        "Missing channel or thread_ts for thread reply")
                 ELSE Delivered(send_thread_reply(channel, thread_ts,
                                                  message, i, o))
        ELSE LET user_id == get(event, "user_id", None) IN
             IF ~truthy(user_id)
             THEN BadRequest("user_id is required for direct messages",
                             "No user_id provided for direct message")
             ELSE Delivered(send_direct_message(user_id, message, i, o))

\* slack_notifier lambda_handler
notifier_lambda_handler(event, i, o) ==
    LET notification_type == get(event, "notification_type", "direct-message")
        message           == get(event, "message", "")
    IN  IF ~truthy(message)
        THEN BadRequest("Message is required", "No message provided")
        ELSE IF notification_type = "direct-message"
        THEN LET user_id == get(event, "user_id", None) IN
             IF ~truthy(user_id)
             THEN BadRequest("user_id is required for direct messages",
                             "No user_id provided for direct message")
             ELSE Delivered(send_direct_message(user_id, message, i, o))
        ELSE IF notification_type = "in-thread"
        THEN LET channel   == get(event, "channel", None)
                 thread_ts == get(event, "thread_ts", None)
             IN  IF ~truthy(channel) \/ ~truthy(thread_ts)
                 THEN BadRequest(
                        "channel and thread_ts required for thread replies",
                        "Missing channel or thread_ts for thread reply")
                 ELSE Delivered(send_thread_reply(channel, thread_ts,
                                                  message, i, o))
        ELSE BadRequest("Invalid notification_type: " \o notification_type,
                        "Invalid notification type: " \o notification_type)

---------------------------------------------------------------------------
(* The state machine *)

NoRun == [handler |-> "none", event |-> [type |-> "none"], handled |-> FALSE,
          calls |-> <<>>, logged |-> {}, exc |-> NoExc,
          response |-> [statusCode |-> 0, body |-> [none |-> TRUE]]]

Idle == [state |-> "Idle", view |-> NoView]

Init ==
    /\ action_data \in Registries
    /\ _slack_app = None
    /\ bot_fetches = 0
    /\ bot_constructs = 0
    /\ _slack_client = None
    /\ notifier_fetches = 0
    /\ notifier_constructs = 0
    /\ dialog = Idle
    /\ run = NoRun

AllOk == [views_open |-> "ok", sorry |-> "ok", received |-> "ok",
          build |-> "ok", running |-> "ok", failed |-> "ok"]

\* outcomes of the outbound calls of handle_slash_command: the error
\* message is sent only after views_open failed
SlashOutcomes ==
    {o \in [views_open : Outcomes, sorry : Outcomes] :
        o.views_open = "ok" => o.sorry = "ok"}

\* outcomes of the outbound calls of handle_updated_modal_submission: a
\* call is made only if the calls before it succeeded, and the failure
\* message only if one of them failed
UpdatedOutcomes ==
    {o \in [received : Outcomes, build : Outcomes, running : Outcomes,
            failed : Outcomes] :
        /\ o.received # "ok" => o.build = "ok" /\ o.running = "ok"
        /\ o.build # "ok" => o.running = "ok"
        /\ (o.received = "ok" /\ o.build = "ok" /\ o.running = "ok")
              => o.failed = "ok"}

\* one invocation of the bot Lambda with the given event, r being what
\* lambda_handler did; next_dialog is what the chat client shows afterwards
BotInvoke(name, event, r, next_dialog) ==
    /\ bot_fetches + count(r.calls, "get_secret_value") <= MaxFetch
    /\ _slack_app' = r.app
    /\ bot_fetches' = bot_fetches + count(r.calls, "get_secret_value")
    /\ bot_constructs' = bot_constructs + r.constructed
    /\ dialog' = next_dialog
    /\ action_data' = r.action_data
    /\ run' = [handler |-> name, event |-> event, handled |-> r.handled,
               calls |-> r.calls, logged |-> r.logged, exc |-> r.exc,
               response |-> r.response]
    /\ UNCHANGED notifier_vars

\* an initialisation is attempted only while no app is cached
BotInits(inits) == IF _slack_app = None THEN inits ELSE {InitOk}

\* the user types /senora
AfterSlash(r) ==
    IF r.handled
          /\ r.calls[Len(r.calls)].api = "views_open"
          /\ r.calls[Len(r.calls)].outcome = "ok"
    THEN [state |-> "AwaitingSelection", view |-> r.calls[Len(r.calls)].view]
    ELSE dialog

SlashCommandWith(users, inits, outcomes) ==
    \E u \in users :
        LET event == [type |-> "command",
                      body |-> [trigger_id |-> "trig-1", user_id |-> u.id]]
        IN  \E r \in {bot_lambda_handler(event, i, o @@ AllOk) :
                         i \in BotInits(inits), o \in outcomes} :
                BotInvoke("handle_slash_command", event, r, AfterSlash(r))

SlashCommand == SlashCommandWith(Users, InitOutcomes, SlashOutcomes)

\* the options the selection form offers, and no selection at all
Selectable(view) ==
    {view.options[k] : k \in DOMAIN view.options} \cup {NoneOption}

\* the user submits the selection form
AfterInitial(r) ==
    IF r.handled /\ r.response.body.response_action = "update"
    THEN [state |-> "AwaitingSubmission", view |-> r.response.body.view]
    ELSE dialog

InitialModalSubmissionWith(users, inits) ==
    /\ dialog.state = "AwaitingSelection"
    /\ \E u \in users, opt \in Selectable(dialog.view) :
        LET event == [type |-> "view_submission",
                      body |-> [trigger_id |-> "trig-2", user |-> u,
                                view |-> [callback_id |->
                                             dialog.view.callback_id,
                                          selected_option |-> opt]]]
        IN  \E r \in {bot_lambda_handler(event, i, AllOk) :
                         i \in BotInits(inits)} :
                BotInvoke("handle_initial_modal_submission", event, r,
                          AfterInitial(r))

InitialModalSubmission == InitialModalSubmissionWith(BodyUsers, InitOutcomes)

\* the user submits the action form
AfterUpdated(r) ==
    IF r.handled THEN [state |-> "Completed", view |-> NoView] ELSE dialog

UpdatedModalSubmissionWith(users, inits, outcomes) ==
    /\ dialog.state = "AwaitingSubmission"
    /\ \E u \in users :
        LET event == [type |-> "view_submission",
                      body |-> [trigger_id |-> "trig-3", user |-> u,
                                view |-> dialog.view]]
        IN  \E r \in {bot_lambda_handler(event, i, o @@ AllOk) :
                         i \in BotInits(inits), o \in outcomes} :
                BotInvoke("handle_updated_modal_submission", event, r,
                          AfterUpdated(r))

UpdatedModalSubmission ==
    UpdatedModalSubmissionWith(BodyUsers, InitOutcomes, UpdatedOutcomes)

\* the bot process ends and a new one starts (cold start, redeploy): the
\* module globals are initialised again, the registry is loaded from the
\* directory as it is then; the user's dialog lives on in the chat client
BotColdStart ==
    /\ action_data' \in Registries
    /\ _slack_app' = None
    /\ bot_fetches' = 0
    /\ bot_constructs' = 0
    /\ run' = [NoRun EXCEPT !.handler = "bot_cold_start"]
    /\ UNCHANGED <<dialog, notifier_vars>>

NotificationEvents ==
    {Notification(t, m, u, c, ts) :
        t \in NotificationTypes, m \in Messages, u \in UserIds,
        c \in Channels, ts \in ThreadTss}

\* one invocation of the notifier Lambda
NotifyWith(events, inits, outcomes) ==
    \E event \in events :
      \E r \in {notifier_lambda_handler(event, i, o) :
                  i \in (IF _slack_client = None THEN inits
                         ELSE {ClientInitOk}),
                  o \in outcomes} :
            /\ notifier_fetches + count(r.calls, "get_secret_value")
                  <= MaxFetch
            /\ _slack_client' = r.client
            /\ notifier_fetches' =
                  notifier_fetches + count(r.calls, "get_secret_value")
            /\ notifier_constructs' = notifier_constructs + r.constructed
            /\ run' = [handler |-> "notifier_lambda_handler",
                       event |-> event, handled |-> TRUE,
                       calls |-> r.calls, logged |-> r.logged,
                       exc |-> NoExc, response |-> r.response]
            /\ UNCHANGED bot_vars

Notify == NotifyWith(NotificationEvents, ClientInitOutcomes, Outcomes)

\* the notifier process ends and a new one starts
NotifierColdStart ==
    /\ _slack_client' = None
    /\ notifier_fetches' = 0
    /\ notifier_constructs' = 0
    /\ run' = [NoRun EXCEPT !.handler = "notifier_cold_start"]
    /\ UNCHANGED bot_vars

\* ---- the bot Lambda alone ----

BotNext ==
    \/ SlashCommand
    \/ InitialModalSubmission
    \/ UpdatedModalSubmission
    \/ BotColdStart

BotSpec == Init /\ [][BotNext]_vars

\* ---- the notifier Lambda alone ----

NotifierNext ==
    \/ Notify
    \/ NotifierColdStart

\* the notifier Lambda ships no actions directory
NotifierInit == Init /\ action_data = load_actions(<<>>)

NotifierSpec == NotifierInit /\ [][NotifierNext]_vars

\* ---- both Lambdas, with one request of each kind and every outcome of ----
\* ---- the initialisations                                             ----

OneUser == {[id |-> "U1", name |-> "alice"]}

OneOfEach ==
    {Notification("direct-message", "hi", "U1", Absent, Absent),
     Notification("in-thread", "hi", Absent, "C1", "1700000000.000100"),
     Notification("in-thread", "hi", Absent, Absent, Absent)}

Next ==
    \/ SlashCommandWith(OneUser, InitOutcomes, {AllOk})
    \/ InitialModalSubmissionWith(OneUser, InitOutcomes)
    \/ UpdatedModalSubmissionWith(OneUser, InitOutcomes, {AllOk})
    \/ BotColdStart
    \/ NotifyWith(OneOfEach, ClientInitOutcomes, {"ok"})
    \/ NotifierColdStart

Spec == Init /\ [][Next]_vars

\* ---- the import of blocks.py and the selection form built from it ----

\* blocks.py is being imported: action_data is still the {} of line 16 and
\* load_actions is about to scan the directory run.event.listing
Importing == run.handler = "import_blocks" /\ ~run.handled

LoadInit ==
    /\ action_data = <<>>
    /\ _slack_app = None
    /\ bot_fetches = 0
    /\ bot_constructs = 0
    /\ _slack_client = None
    /\ notifier_fetches = 0
    /\ notifier_constructs = 0
    /\ dialog = Idle
    /\ \E P \in Dirs(ScanNames, MaxEntries) :
          \E f \in [P -> EntryKinds], p \in Perms(P) :
              run = [NoRun EXCEPT !.handler = "import_blocks",
                                  !.event = [type |-> "import",
                                             listing |-> Scan(P, f, p)]]

\* action_data = load_actions()
ImportBlocks ==
    /\ Importing
    /\ action_data' = load_actions(run.event.listing)
    /\ run' = [run EXCEPT !.handled = TRUE]
    /\ UNCHANGED <<_slack_app, bot_fetches, bot_constructs, dialog,
                   notifier_vars>>

\* /senora once the module is imported
LoadedSlashCommand ==
    /\ ~Importing
    /\ SlashCommandWith(OneUser, {InitOk}, SlashOutcomes)

LoadNext ==
    \/ ImportBlocks
    \/ LoadedSlashCommand

LoadSpec == LoadInit /\ [][LoadNext]_vars

---------------------------------------------------------------------------
(* Properties *)

\* the calls of the most recent handling to one API, in order
CallsTo(api) == SelectSeq(run.calls, LAMBDA c : c.api = api)

\* the messages the bot posted from one call site of a handler
PostsAt(site) ==
    SelectSeq(run.calls,
              LAMBDA c : c.api = "chat_postMessage" /\ c.site = site)

\* the most recent handling ran handle_updated_modal_submission
FinalSubmission ==
    run.handler = "handle_updated_modal_submission" /\ run.handled

\* the most recent handling ran handle_initial_modal_submission
SelectionSubmission ==
    run.handler = "handle_initial_modal_submission" /\ run.handled

\* the most recent handling was a notification request
NotificationHandled == run.handler = "notifier_lambda_handler"

\* C1: a well-formed final submission (the body carries the user's id and
\* name) results in exactly one start_build call, for the project
\* BOT_NAME-<private_metadata>, with USER_ID and USER_NAME those of the
\* submitting user, whatever the outcome of the other outbound calls.
C1_ExactlyOneJobTrigger ==
    (FinalSubmission /\ "name" \in DOMAIN run.event.body.user) =>
        /\ Len(CallsTo("start_build")) = 1
        /\ CallsTo("start_build")[1].projectName =
              BOT_NAME \o "-" \o run.event.body.view.private_metadata
        /\ CallsTo("start_build")[1].env.USER_ID = run.event.body.user.id
        /\ CallsTo("start_build")[1].env.USER_NAME = run.event.body.user.name

\* C2: a final submission whose private_metadata is not a key of
\* action_data does not proceed: no start_build call is made and no
\* "is now running" message is sent.
C2_StaleTokenDoesNotProceed ==
    (FinalSubmission
        /\ run.event.body.view.private_metadata \notin DOMAIN action_data) =>
        /\ CallsTo("start_build") = <<>>
        /\ PostsAt("running") = <<>>

\* C3: a selection submission whose selected name is not a key of
\* action_data is acknowledged once, with the field-level error "Invalid
\* action selected" on action_select_block; no update directive is sent,
\* no start_build call is made and the dialog is still AwaitingSelection.
C3_InvalidSelectionRejected ==
    (SelectionSubmission
        /\ run.event.body.view.selected_option # NoneOption
        /\ run.event.body.view.selected_option.value
              \notin DOMAIN action_data) =>
        /\ CallsTo("ack") =
              <<Ack([response_action |-> "errors",
                     errors |-> [action_select_block |->
                                    "Invalid action selected"]])>>
        /\ CallsTo("start_build") = <<>>
        /\ dialog.state = "AwaitingSelection"

\* a stale option (the registry changed since the form was opened) was
\* selected and rejected
C3_Witness ==
    /\ SelectionSubmission
    /\ run.event.body.view.selected_option # NoneOption
    /\ run.event.body.view.selected_option.value \notin DOMAIN action_data
    /\ run.response.body.response_action = "errors"

\* the start_build call of the most recent handling failed
StartBuildFailed ==
    /\ FinalSubmission
    /\ CallsTo("start_build") # <<>>
    /\ CallsTo("start_build")[1].outcome # "ok"

\* the posts among a sequence of calls that were delivered
DeliveredOf(posts) == SelectSeq(posts, LAMBDA c : c.outcome = "ok")

\* C4 as stated: if start_build fails, the user receives exactly one
\* failure notification and no job handle is reported.
C4_ReceivesOneFailureNotification ==
    StartBuildFailed =>
        /\ Len(DeliveredOf(PostsAt("failed"))) = 1
        /\ PostsAt("running") = <<>>

\* C4 amended: if start_build fails, exactly one failure notification is
\* sent to the submitting user, as the last call of the handling, so the
\* user receives at most one (none when that send fails); no message with
\* the job handle is sent.
C4_OneFailureNotificationSent ==
    StartBuildFailed =>
        /\ Len(PostsAt("failed")) = 1
        /\ PostsAt("failed")[1].channel = run.event.body.user.id
        /\ run.calls[Len(run.calls)] = PostsAt("failed")[1]
        /\ PostsAt("running") = <<>>

\* start_build failed and the failure notification could not be delivered
C4_Witness ==
    /\ StartBuildFailed
    /\ Len(PostsAt("failed")) = 1
    /\ PostsAt("failed")[1].outcome # "ok"

\* C5: user-facing error messages do not depend on the text of the
\* underlying exception: the failure message the bot posts, and the body
\* the notifier returns with status 500, are the ones the same handling
\* produces for any other exception text.
C5_GenericErrorMessages ==
    /\ (FinalSubmission /\ PostsAt("failed") # <<>>) =>
          \A e \in ErrTexts :
              PostsAt("failed")[1].text = FailedText(Raised(e))
    /\ (NotificationHandled /\ run.response.statusCode = 500) =>
          \A e \in ErrTexts :
              run.response.body = [error |-> str(Raised(e))]

\* C6 as stated: in one process lifetime the secret is fetched at most
\* once and the app/client constructed at most once, also after failures.
C6_FetchedAtMostOnce ==
    /\ bot_fetches <= 1
    /\ bot_constructs <= 1
    /\ notifier_fetches <= 1
    /\ notifier_constructs <= 1

\* the step is not the start of a new bot / notifier process
SameBotProcess == run'.handler # "bot_cold_start"
SameNotifierProcess == run'.handler # "notifier_cold_start"

\* C6 amended: in one process lifetime the app/client object is constructed
\* at most once and is cached exactly when it was constructed; once it is
\* cached no invocation fetches the secret or constructs again, every later
\* invocation reuses the cached object.  (An invocation whose fetch or
\* construction fails leaves the cache empty and the next one fetches
\* again.)
C6_InitialisedOnce ==
    /\ [](/\ bot_constructs = (IF _slack_app = None THEN 0 ELSE 1)
          /\ notifier_constructs = (IF _slack_client = None THEN 0 ELSE 1))
    /\ [][/\ (_slack_app # None /\ SameBotProcess) =>
                /\ _slack_app' = _slack_app
                /\ bot_fetches' = bot_fetches
                /\ bot_constructs' = bot_constructs
          /\ (_slack_client # None /\ SameNotifierProcess) =>
                /\ _slack_client' = _slack_client
                /\ notifier_fetches' = notifier_fetches
                /\ notifier_constructs' = notifier_constructs]_vars

\* both processes initialised at their second fetch, after a failed first
\* attempt, and the most recent invocation reused the cached object
C6_Witness ==
    /\ _slack_app # None /\ bot_fetches = 2
    /\ _slack_client # None /\ notifier_fetches = 2
    /\ run.handled
    /\ CallsTo("get_secret_value") = <<>>

\* a field of a notification request is missing or empty
missing(event, key) == key \notin DOMAIN event \/ event[key] = ""

\* the request says the given notification type
typed(event, t) ==
    "notification_type" \in DOMAIN event /\ event.notification_type = t

\* C7: a notification request with message missing or empty, or of type
\* direct-message with user_id missing or empty, or of type in-thread with
\* channel or thread_ts missing or empty, returns 400 and makes no call at
\* all: no chat_postMessage, no secret fetch, no client construction.
C7_ValidatedBeforeDelivery ==
    (NotificationHandled
        /\ \/ missing(run.event, "message")
           \/ typed(run.event, "direct-message")
                 /\ missing(run.event, "user_id")
           \/ typed(run.event, "in-thread")
                 /\ (missing(run.event, "channel")
                        \/ missing(run.event, "thread_ts"))) =>
        /\ run.response.statusCode = 400
        /\ run.calls = <<>>

\* an in-thread request without channel and thread_ts was answered 400
C7_Witness ==
    /\ NotificationHandled
    /\ run.event = Notification("in-thread", "hi", Absent, Absent, Absent)
    /\ run.response.statusCode = 400

\* C8: a notification request whose notification_type is present and is
\* neither direct-message nor in-thread returns 400 and makes no call,
\* whatever target fields it carries.
C8_UnknownTypeRejected ==
    (NotificationHandled
        /\ "notification_type" \in DOMAIN run.event
        /\ run.event.notification_type
              \notin {"direct-message", "in-thread"}) =>
        /\ run.response.statusCode = 400
        /\ run.calls = <<>>

\* a request of type bogus with a message and a user_id was answered 400
C8_Witness ==
    /\ NotificationHandled
    /\ run.event = Notification("bogus", "hi", "U1", Absent, Absent)
    /\ run.response.statusCode = 400

\* the delivery call of the most recent notification succeeded
DeliverySucceeded ==
    /\ NotificationHandled
    /\ \E k \in DOMAIN run.calls :
          run.calls[k].api = "chat_postMessage" /\ run.calls[k].outcome = "ok"

\* C9: a valid notification request whose delivery call succeeds makes
\* exactly one chat_postMessage call and returns 200; direct-message: to
\* the user_id, with the message as text and no thread; in-thread: to the
\* channel, in the thread thread_ts, with the message as text.
C9_ExactlyOneDelivery ==
    /\ (DeliverySucceeded /\ typed(run.event, "direct-message")) =>
          /\ run.response.statusCode = 200
          /\ Len(CallsTo("chat_postMessage")) = 1
          /\ CallsTo("chat_postMessage")[1].channel = run.event.user_id
          /\ CallsTo("chat_postMessage")[1].thread_ts = None
          /\ CallsTo("chat_postMessage")[1].text = run.event.message
    /\ (DeliverySucceeded /\ typed(run.event, "in-thread")) =>
          /\ run.response.statusCode = 200
          /\ Len(CallsTo("chat_postMessage")) = 1
          /\ CallsTo("chat_postMessage")[1].channel = run.event.channel
          /\ CallsTo("chat_postMessage")[1].thread_ts = run.event.thread_ts
          /\ CallsTo("chat_postMessage")[1].text = run.event.message

\* an in-thread reply was delivered
C9_Witness ==
    /\ DeliverySucceeded
    /\ typed(run.event, "in-thread")
    /\ run.response.statusCode = 200

\* a call of the most recent handling raised, or the secret was fetched
\* but held no token, so that no client was constructed
SomethingFailed ==
    \/ \E k \in DOMAIN run.calls : run.calls[k].outcome # "ok"
    \/ /\ CallsTo("get_secret_value") # <<>>
       /\ CallsTo("get_secret_value")[1].outcome = "ok"
       /\ _slack_client = None

\* C10: the notifier handler returns status 200, 400 or 500; 500 exactly
\* when the secret fetch, the client initialisation or the delivery
\* attempt failed; 200 only when its last call is a successful
\* chat_postMessage; it makes at most one delivery attempt.
C10_StatusReflectsOutcome ==
    NotificationHandled =>
        /\ run.response.statusCode \in {200, 400, 500}
        /\ run.response.statusCode = 500 <=> SomethingFailed
        /\ run.response.statusCode = 200 =>
              /\ run.calls # <<>>
              /\ run.calls[Len(run.calls)].api = "chat_postMessage"
              /\ run.calls[Len(run.calls)].outcome = "ok"
        /\ Len(CallsTo("chat_postMessage")) <= 1

\* the single delivery attempt failed and the handler answered 500
C10_Witness ==
    /\ NotificationHandled
    /\ Len(CallsTo("chat_postMessage")) = 1
    /\ CallsTo("chat_postMessage")[1].outcome # "ok"
    /\ run.response.statusCode = 500

\* the entry names in the order Python sorts them (by code point)
NameOrder == <<".git", "_shared", "backup", "build", "deploy">>

rank(name) == CHOOSE k \in 1..Len(NameOrder) : NameOrder[k] = name

\* the most recent handling ran handle_slash_command and called views_open
FormOpened ==
    /\ run.handler = "handle_slash_command"
    /\ run.handled
    /\ CallsTo("views_open") # <<>>

\* the options of the selection form passed to views_open
Options == CallsTo("views_open")[1].view.options

\* C11: the selection form open_modal builds lists the registry sorted by
\* name: the option values are strictly increasing (so no name occurs
\* twice), they are exactly the keys of action_data, and each option's
\* text and value are the action name.
C11_OptionsSortedAndComplete ==
    FormOpened =>
        /\ \A i, j \in DOMAIN Options :
              i < j => rank(Options[i].value) < rank(Options[j].value)
        /\ {Options[k].value : k \in DOMAIN Options} = DOMAIN action_data
        /\ \A k \in DOMAIN Options : Options[k].text = Options[k].value

\* a form with the three loadable names was opened
C11_Witness ==
    /\ FormOpened
    /\ Len(Options) = 3
    /\ Options[1].value = "backup"
    /\ Options[3].value = "deploy"

\* load_actions has returned for the directory run.event.listing
Imported == run.handler = "import_blocks" /\ run.handled

\* the entries of the scanned directory that are action directories: not
\* hidden, not private, with a modal.json that parses
Loadable ==
    {k \in DOMAIN run.event.listing :
        /\ run.event.listing[k].kind \in {"array", "valid"}
        /\ chars[run.event.listing[k].name][1] \notin {".", "_"}}

\* C12: after load_actions the registry holds exactly the subdirectories
\* whose name does not start with "." or "_" and whose modal.json parses,
\* each keyed by its directory name with the parsed document as value,
\* whatever the entries around it are and in whatever order they are
\* scanned.
C12_LoadIsolatesEntries ==
    Imported =>
        /\ DOMAIN action_data = {run.event.listing[k].name : k \in Loadable}
        /\ \A k \in Loadable :
              action_data[run.event.listing[k].name] =
                 modal_data(run.event.listing[k].name,
                            run.event.listing[k].kind)

\* a directory scanned after one with a malformed modal.json was loaded,
\* and a private directory with a good modal.json was not
C12_Witness ==
    /\ Imported
    /\ Len(run.event.listing) = 3
    /\ run.event.listing[1].kind = "bad_json"
    /\ run.event.listing[2] = [name |-> "deploy", kind |-> "valid"]
    /\ run.event.listing[3] = [name |-> "_shared", kind |-> "valid"]
    /\ DOMAIN action_data = {"deploy"}

\* what a call of a bot handler is: its API, or for a message the call
\* site that sent it
step_of(c) == IF c.api = "chat_postMessage" THEN c.site ELSE c.api

\* the steps of the most recent handling, in order, without the secret
\* fetch of the initialisation and without the failure notification
Steps ==
    LET kept == SelectSeq(run.calls,
                          LAMBDA c : step_of(c) \in {"ack", "received",
                                                     "start_build", "running"})
    IN  [k \in DOMAIN kept |-> step_of(kept[k])]

FixedOrder == <<"ack", "received", "start_build", "running">>

\* C13: the steps of a final-submission handling are a prefix of: ack,
\* "request received" message, start_build, job-handle message; the ack
\* is always there, and the job-handle message only after start_build
\* returned successfully.
C13_FixedStepOrder ==
    FinalSubmission =>
        /\ Len(Steps) \in 1..4
        /\ Steps = SubSeq(FixedOrder, 1, Len(Steps))
        /\ Len(Steps) = 4 => CallsTo("start_build")[1].outcome = "ok"

\* a handling that went through all four steps
C13_Witness ==
    /\ FinalSubmission
    /\ Steps = FixedOrder
    /\ PostsAt("running")[1].outcome = "ok"

\* the most recent handling was a selection submission of a name that is
\* a key of action_data
ValidSelection ==
    /\ SelectionSubmission
    /\ run.event.body.view.selected_option # NoneOption
    /\ run.event.body.view.selected_option.value \in DOMAIN action_data

\* the start_build calls of the handling the step ends with
StartBuilds_next == SelectSeq(run'.calls, LAMBDA c : c.api = "start_build")

\* C14: a valid selection of N is answered with the update directive whose
\* view is N's template with callback_id "updated_modal" and
\* private_metadata N, and the final submission of that form triggers
\* exactly the job of N.
C14_ActionThreadedThrough ==
    /\ [](ValidSelection =>
            LET N == run.event.body.view.selected_option.value
                response == run.response.body
            IN  /\ response.response_action = "update"
                /\ response.view.callback_id = "updated_modal"
                /\ response.view.private_metadata = N
                /\ \A key \in DOMAIN action_data[N]
                              \ {"callback_id", "private_metadata"} :
                       /\ key \in DOMAIN response.view
                       /\ response.view[key] = action_data[N][key])
    /\ [][(/\ dialog.state = "AwaitingSubmission"
           /\ run'.handler = "handle_updated_modal_submission"
           /\ run'.handled) =>
              /\ Len(StartBuilds_next) = 1
              /\ StartBuilds_next[1].projectName =
                    BOT_NAME \o "-" \o dialog.view.private_metadata]_vars

\* the most recent handling answered a selection with the action form
FormBuilt ==
    /\ SelectionSubmission
    /\ run.response.body.response_action = "update"

\* C15: within one process no handling changes action_data: it is always
\* a registry as load_actions returns it, a step of the same process
\* leaves it as it was, and after create_action_modal built a form the
\* stored template carries neither private_metadata nor the callback_id
\* "updated_modal".
C15_RegistryNeverWritten ==
    /\ [](/\ action_data \in Registries
          /\ \A N \in DOMAIN action_data :
                /\ "private_metadata" \notin DOMAIN action_data[N]
                /\ "callback_id" \in DOMAIN action_data[N] =>
                      action_data[N].callback_id # "updated_modal")
    /\ [][SameBotProcess => action_data' = action_data]_vars

\* a form was built from the template of the selected action, and the
\* form carries the two keys the stored template must not have
C15_Witness ==
    /\ FormBuilt
    /\ run.response.body.view.private_metadata \in DOMAIN action_data
    /\ run.response.body.view.callback_id = "updated_modal"

\* the most recent handling ran handle_slash_command
CommandHandled == run.handler = "handle_slash_command" /\ run.handled

\* where in the calls of the most recent handling the acks are, and where
\* the calls to the chat platform and to the job runner are
AckIndexes == {k \in DOMAIN run.calls : run.calls[k].api = "ack"}
SlowerIndexes ==
    {k \in DOMAIN run.calls :
        run.calls[k].api \in {"views_open", "chat_postMessage", "start_build"}}

\* C16: every handling of a command and of a final submission issues one
\* ack, and it comes before views_open, before every chat_postMessage and
\* before start_build, whatever the outcomes of those calls.
C16_AckBeforeSlowerCalls ==
    (CommandHandled \/ FinalSubmission) =>
        /\ Cardinality(AckIndexes) = 1
        /\ \A a \in AckIndexes, k \in SlowerIndexes : a < k

\* a command whose views_open failed after the ack, and a final submission
\* whose start_build failed after the ack
C16_Witness ==
    /\ AckIndexes # {}
    /\ \/ /\ CommandHandled
          /\ CallsTo("views_open")[1].outcome # "ok"
          /\ PostsAt("sorry") # <<>>
       \/ StartBuildFailed

\* C17: a final-submission handling calls start_build at most once; when
\* that call fails the handler's except block runs with that error (it is
\* logged and reported in the failure message), nothing is called after
\* start_build but the failure message, and the dialog is Completed; a
\* Completed dialog triggers no job.
C17_SingleAttempt ==
    /\ [](FinalSubmission =>
            /\ Len(CallsTo("start_build")) <= 1
            /\ StartBuildFailed =>
                  LET e == Raised(CallsTo("start_build")[1].outcome) IN
                  /\ str(e) \in run.logged
                  /\ Len(PostsAt("failed")) = 1
                  /\ PostsAt("failed")[1].text = FailedText(e)
                  /\ run.calls[Len(run.calls) - 1].api = "start_build"
                  /\ run.calls[Len(run.calls)] = PostsAt("failed")[1]
                  /\ dialog.state = "Completed")
    /\ [][dialog.state = "Completed" => StartBuilds_next = <<>>]_vars

\* start_build was called once and failed, and the session is over
C17_Witness ==
    /\ StartBuildFailed
    /\ Len(CallsTo("start_build")) = 1
    /\ dialog.state = "Completed"

\* the error messages of the most recent handling: the one of the command
\* handler and the one of the final-submission handler
ErrorPosts == PostsAt("sorry") \o PostsAt("failed")

\* the most recent handling sent an error message and the send failed
ErrorPostFailed ==
    /\ CommandHandled \/ FinalSubmission
    /\ ErrorPosts # <<>>
    /\ ErrorPosts[1].outcome # "ok"

\* C18: when the error message of the command handler or of the
\* final-submission handler cannot be sent, it was attempted once, it is
\* the last call of the handling, no exception leaves the handler and the
\* request is answered with the acknowledgment.
C18_BestEffortSwallowed ==
    ErrorPostFailed =>
        /\ Len(ErrorPosts) = 1
        /\ run.calls[Len(run.calls)] = ErrorPosts[1]
        /\ run.exc = NoExc
        /\ run.response = [statusCode |-> 200, body |-> EmptyAck]

\* both cases: views_open failed and so did the apology; the final
\* submission failed and so did the failure message
C18_Witness ==
    /\ ErrorPostFailed
    /\ \/ CommandHandled /\ CallsTo("views_open")[1].outcome # "ok"
       \/ FinalSubmission /\ PostsAt("received")[1].outcome # "ok"

\* the most recent handling started a job: start_build returned a build
JobStarted ==
    /\ FinalSubmission
    /\ CallsTo("start_build") # <<>>
    /\ CallsTo("start_build")[1].outcome = "ok"

\* C19: in a final-submission handling whose start_build succeeded no
\* "Failed to execute action" message is sent.
C19_NoFailureForStartedJob ==
    JobStarted => PostsAt("failed") = <<>>

\* the selection handler raised inside its try block: nothing was selected,
\* or the template of the selected action is not a JSON object
SelectionRaised ==
    /\ SelectionSubmission
    /\ \/ run.event.body.view.selected_option = NoneOption
       \/ /\ ValidSelection
          /\ ~isinstance_dict(
                 action_data[run.event.body.view.selected_option.value])

\* C20: every handling of a selection submission issues exactly one ack,
\* and its response_action is "errors" or "update"; when the handler's
\* try block raised it is "errors".
C20_ExactlyOneAck ==
    SelectionSubmission =>
        /\ Cardinality(AckIndexes) = 1
        /\ Len(run.calls) = Cardinality(AckIndexes)
                               + Len(CallsTo("get_secret_value"))
        /\ \A a \in AckIndexes :
              /\ run.calls[a].response.response_action \in {"errors", "update"}
              /\ run.response.body = run.calls[a].response
              /\ SelectionRaised =>
                    run.calls[a].response.response_action = "errors"

\* a selection submission during which building the action form raised
C20_Witness ==
    /\ SelectionRaised
    /\ ValidSelection
    /\ AckIndexes # {}

\* the most recent notification request has no notification_type and a
\* non-empty message
TypeOmitted ==
    /\ NotificationHandled
    /\ "notification_type" \notin DOMAIN run.event
    /\ ~missing(run.event, "message")

\* the most recent handling made the calls of a direct message to the
\* user_id of the request, if it made any
OnlyDirectMessage ==
    /\ Len(CallsTo("chat_postMessage")) <= 1
    /\ \A k \in DOMAIN CallsTo("chat_postMessage") :
          /\ CallsTo("chat_postMessage")[k].channel = run.event.user_id
          /\ CallsTo("chat_postMessage")[k].thread_ts = None
          /\ CallsTo("chat_postMessage")[k].text = run.event.message

\* C21 as stated: a request without notification_type and with a non-empty
\* message makes exactly one direct-message call to user_id and returns 200
\* when it has a user_id, and returns 400 without any call when it has none.
C21_OmittedTypeDelivers ==
    TypeOmitted =>
        IF missing(run.event, "user_id")
        THEN /\ run.response.statusCode = 400
             /\ run.calls = <<>>
        ELSE /\ Len(CallsTo("chat_postMessage")) = 1
             /\ OnlyDirectMessage
             /\ run.response.statusCode = 200

\* C21 amended: a request without notification_type and with a non-empty
\* message is handled as a direct message.  Without a user_id it returns
\* 400 and makes no call.  With a user_id it is never answered 400; it
\* makes at most one chat_postMessage call, to user_id, outside any
\* thread, with the message as text; it returns 200 exactly when that call
\* was made and succeeded, and 500 when the secret fetch, the client
\* initialisation or the call failed.
C21_OmittedTypeIsDirectMessage ==
    TypeOmitted =>
        IF missing(run.event, "user_id")
        THEN /\ run.response.statusCode = 400
             /\ run.calls = <<>>
        ELSE /\ OnlyDirectMessage
             /\ run.response.statusCode \in {200, 500}
             /\ run.response.statusCode = 200 <=> DeliverySucceeded
             /\ run.response.statusCode = 500 <=> SomethingFailed
             /\ (~SomethingFailed) => Len(CallsTo("chat_postMessage")) = 1

\* a request with only a message and a user_id was delivered as a direct
\* message
C21_Witness ==
    /\ TypeOmitted
    /\ run.event = Notification(Absent, "hi", "U1", Absent, Absent)
    /\ DeliverySucceeded
    /\ run.response.statusCode = 200

====
